---- MODULE Spec2Model ----
(***************************************************************************)
(* byteme::GzipFileReader<B> (include/byteme/GzipFileReader.hpp): a reader *)
(* that owns a zlib gzFile and hands out the decompressed bytes in chunks  *)
(* of at most buffer_size bytes.                                           *)
(*                                                                         *)
(* The state is the reader's members (gz.handle, buffer_, counter_buffer,  *)
(* read), the state of the zlib handle it drives (stream position, EOF     *)
(* indicator, error message, open/closed), and what a caller observes of   *)
(* each operator() call (return value or exception, the chunk             *)
(* buffer()[0..available())).                                              *)
(*                                                                         *)
(* Machine integers keep their C++ conversions, on an LP64 layout scaled   *)
(* to IntBits: int and unsigned have IntBits bits, size_t has 2*IntBits.   *)
(* zlib itself is modelled by the contract zlib.h documents for gzopen,    *)
(* gzread, gzeof, gzerror and gzclose.                                     *)
(***************************************************************************)
EXTENDS Integers, Sequences, FiniteSets, TLC

\* ------------------------------------------------------------------ bounds
\* Longest decompressed content of a stream.
MaxLen == 4
\* Width of int and of unsigned (32 in the build); size_t is twice as wide.
IntBits == 3
\* Most operator() calls made on one reader.
MaxCalls == 6

\* ------------------------------------------------------- machine integers
RECURSIVE Pow2(_)
Pow2(k) == IF k = 0 THEN 1 ELSE 2 * Pow2(k - 1)

\* INT_MAX: the largest count gzread can return, and the largest len it accepts.
IntMax == Pow2(IntBits - 1) - 1
\* UINT_MAX + 1.
UIntMod == Pow2(IntBits)
\* SIZE_MAX + 1.
SizeMod == Pow2(2 * IntBits)

\* size_t -> unsigned: the implicit conversion of buffer_.size() to gzread's
\* `unsigned len` parameter.
ToUnsigned(n) == n % UIntMod

\* int -> size_t: the implicit conversion of gzread's result in `read = ...`.
ToSizeT(i) == i % SizeMod

\* The values an unsigned char takes in the model: one below and one above 128,
\* so that the conversion to char is visible.
Bytes == {65, 200}

\* unsigned char -> char, as std::copy_n assigns each element.
ToChar(b) == IF b >= 128 THEN b - 256 ELSE b

\* What a vector of n value-initialised elements holds.
Zeros(n) == [i \in 1..n |-> 0]

\* xs with its first Len(ys) elements replaced by ys (Len(ys) <= Len(xs)).
Overwrite(xs, ys) == [i \in 1..Len(xs) |-> IF i <= Len(ys) THEN ys[i] ELSE xs[i]]

\* A run of unsigned chars converted element by element.
ToChars(xs) == [i \in 1..Len(xs) |-> ToChar(xs[i])]

IsPrefix(xs, ys) == Len(xs) <= Len(ys) /\ SubSeq(ys, 1, Len(xs)) = xs

\* All sequences over S of length at most n.
RECURSIVE SeqsUpTo(_, _)
SeqsUpTo(S, n) ==
    IF n = 0 THEN {<<>>}
    ELSE LET shorter == SeqsUpTo(S, n - 1)
         IN shorter \cup {Append(s, b) : s \in {t \in shorter : Len(t) = n - 1}, b \in S}

\* ------------------------------------------------------------------- state
VARIABLES
    file,            \* the file at `path`: can gzopen open it, is its stream valid, its content
    lib,             \* the zlib side of gz.handle: open/closed, position, EOF indicator, error
    phase,           \* where the reader object is in its lifetime
    isChar,          \* template argument: B is char (TRUE) or unsigned char (FALSE)
    buffer_size,     \* constructor argument
    buffer_,         \* std::vector<unsigned char> buffer_
    counter_buffer,  \* std::vector<char> counter_buffer
    read,            \* size_t read
    ret,             \* how the latest operator() call ended
    what,            \* message of the exception the latest failing call threw
    rd,              \* the int gzread returned in the latest operator() call
    faultHit,        \* the latest gzread ran into the fault of a broken stream
    ops,             \* the zlib calls the latest operator() call made, in order
    out,             \* concatenation of buffer()[0..available()) over the calls that returned
    log,             \* <<ret, available()>> of every operator() call so far
    overrun,         \* operator() has written memory outside buffer_ and counter_buffer
    closeRc          \* what gzclose returned to the destructor

vars == <<file, lib, phase, isChar, buffer_size, buffer_, counter_buffer, read,
          ret, what, rd, faultHit, ops, out, log, overrun, closeRc>>

\* Values of buffer_size tried: 0, every size gzread accepts, every size that does
\* not fit an int, and the first sizes that do not fit an unsigned.
Capacities == 0..(UIntMod + 1)

\* How gzread reports the fault of a broken stream: a read of 0 bytes that leaves
\* the EOF indicator clear, or its error return.
FaultSignals == {0, -1}

\* The files a path can name: one gzopen cannot open, and for every content a
\* valid stream and the broken ones (truncated or corrupted) that decode to that
\* content and then fault, one for each way zlib reports the fault.
Files ==
    {[openable |-> FALSE, valid |-> FALSE, data |-> <<>>, signal |-> 0]}
    \cup {[openable |-> TRUE, valid |-> TRUE, data |-> d, signal |-> 0] :
             d \in SeqsUpTo(Bytes, MaxLen)}
    \cup {[openable |-> TRUE, valid |-> FALSE, data |-> d, signal |-> r] :
             d \in SeqsUpTo(Bytes, MaxLen), r \in FaultSignals}

\* ------------------------------------------------------------------- zlib
NoHandle == [handle |-> "none", pos |-> 0, eof |-> FALSE, err |-> "",
             opens |-> 0, closes |-> 0, misuse |-> FALSE]

\* gzopen(path, "rb"): a handle, or NULL (handle stays "none") when the file
\* cannot be opened.
gzopen(l, f) ==
    IF f.openable
    THEN [l EXCEPT !.handle = "open", !.opens = @ + 1]
    ELSE l

\* A call on a handle that is not open (NULL or already closed) is a misuse.
Used(l) == [l EXCEPT !.misuse = @ \/ l.handle # "open"]

\* gzread(file, buf, len): the outcomes zlib.h allows, each with the int returned
\* (n), the bytes stored at the start of buf (data) and the handle afterwards.
\*   - len does not fit an int: nothing is read, -1, error state set;
\*   - len = 0: 0;
\*   - the stream has len more bytes: len bytes;
\*   - a valid stream has fewer: what is left (possibly 0), EOF indicator set;
\*   - a broken stream has fewer: what decodes before the fault, and once nothing
\*     does, the fault: 0 without the EOF indicator, or -1 (f.signal).
gzread(l, f, len) ==
    LET u == Used(l)
        avail == Len(f.data) - l.pos
        bytes(k) == SubSeq(f.data, l.pos + 1, l.pos + k)
    IN IF len > IntMax
       THEN {[n |-> -1, data |-> <<>>, fault |-> FALSE,
              lib |-> [u EXCEPT !.err = "request does not fit in an int"]]}
       ELSE IF len = 0
       THEN {[n |-> 0, data |-> <<>>, fault |-> FALSE, lib |-> u]}
       ELSE IF avail >= len
       THEN {[n |-> len, data |-> bytes(len), fault |-> FALSE,
              lib |-> [u EXCEPT !.pos = @ + len]]}
       ELSE IF f.valid
       THEN {[n |-> avail, data |-> bytes(avail), fault |-> FALSE,
              lib |-> [u EXCEPT !.pos = @ + avail, !.eof = TRUE]]}
       ELSE IF avail > 0
       THEN {[n |-> avail, data |-> bytes(avail), fault |-> FALSE,
              lib |-> [u EXCEPT !.pos = @ + avail]]}
       ELSE {[n |-> f.signal, data |-> <<>>, fault |-> TRUE,
              lib |-> [u EXCEPT !.err = "invalid or incomplete stream"]]}

\* gzeof(file): the EOF indicator.
gzeof(l) == l.eof

\* gzerror(file, &errnum): the message of the handle's last error.
gzerror(l) == l.err

\* gzclose(file): releases the handle.
gzclose(l) == [Used(l) EXCEPT !.handle = "closed", !.closes = @ + 1]

\* What gzclose may return: Z_OK, or an error code.
CloseCodes == {"Z_OK", "Z_ERRNO", "Z_BUF_ERROR"}

\* ----------------------------------------------------------------- GZFile
\* GZFile's constructor without its `if (!handle) throw`: a NULL handle is kept.
GZFile_ctor_Unchecked(l, f) == [thrown |-> FALSE, lib |-> gzopen(l, f)]

\* GZFile::GZFile(path): handle(gzopen(path, "rb")), and a std::runtime_error
\* when the handle is NULL.
GZFile_ctor(l, f) ==
    LET opened == gzopen(l, f)
    IN [thrown |-> opened.handle = "none", lib |-> opened]

\* GZFile's destructor without its gzclose: the handle leaks.
GZFile_dtor_Leak(l) == l

\* GZFile::~GZFile(): gzclose(handle), its return value dropped.
GZFile_dtor(l) == gzclose(l)

\* The handle held as a raw gzFile member, closed in ~GzipFileReader's body: a
\* constructor that throws runs no destructor body, so nothing closes it.
Unwind_RawHandle(l) == l

\* A constructor that throws after gz is built destroys gz, the member declared
\* (and so constructed) first: ~GZFile runs.
Unwind(l) == GZFile_dtor(l)

\* ~GZFile with gzclose's return value checked and thrown: a destructor that
\* throws ends the program (std::terminate).
DtorEnds_Checked(rc) == IF rc = "Z_OK" THEN "destroyed" ELSE "terminated"

\* How ~GZFile ends given what gzclose returned: the value is dropped and the
\* destructor returns.
DtorEnds(rc) == "destroyed"

\* --------------------------------------------------------- GzipFileReader
\* The value of a member that does not exist (no object, or B is not char).
NoBuffer == <<>>

\* const B* buffer() const: counter_buffer.data() for char, else buffer_.data().
buffer == IF isChar THEN counter_buffer ELSE buffer_

\* size_t available() const.
available == read

\* std::copy_n(buffer_.data(), n, counter_buffer.data()): the first n elements of
\* src converted to char into dst. With n beyond the arrays the copy runs off both:
\* the process dies there, or it survives with dst's own elements overwritten.
copy_n(src, n, dst) ==
    IF n <= Len(src) /\ n <= Len(dst)
    THEN {[crash |-> FALSE, overrun |-> FALSE,
           dst |-> Overwrite(dst, ToChars(SubSeq(src, 1, n)))]}
    ELSE {[crash |-> TRUE, overrun |-> TRUE, dst |-> dst],
          [crash |-> FALSE, overrun |-> TRUE,
           dst |-> Overwrite(dst, ToChars(SubSeq(src, 1, Len(dst))))]}

\* The tail of operator() without the gzeof check: zero bytes always end the
\* stream.
Outcome_NoEofCheck(r, l) == IF r = 0 THEN "false" ELSE "true"

\* The tail of operator() returning false as soon as the handle is at EOF, also
\* for a call that read bytes (the convention of the doc comment).
Outcome_FalseAtEof(r, l) ==
    IF r = 0 /\ ~gzeof(l) THEN "throw"
    ELSE IF r = 0 \/ gzeof(l) THEN "false"
    ELSE "true"

\* The tail of operator() with gzread's error return caught after the store
\* into read: it throws with read still holding (size_t)-1.
Outcome_ThrowOnErrorReturn(r, l) ==
    IF r = SizeMod - 1 \/ (r = 0 /\ ~gzeof(l)) THEN "throw"
    ELSE IF r = 0 THEN "false"
    ELSE "true"

\* The tail of operator(): with read == 0, false at EOF and otherwise a
\* std::runtime_error holding gzerror's message; with read != 0, true.
Outcome(r, l) ==
    IF r = 0
    THEN IF ~gzeof(l) THEN "throw" ELSE "false"
    ELSE "true"

\* The zlib calls of an operator() that asks gzeof after every read.
Calls_EofAlways(r, l, len) ==
    <<<<"gzread", len>>, <<"gzeof", 0>>>>
    \o (IF r = 0 /\ ~gzeof(l) THEN <<<<"gzerror", 0>>>> ELSE <<>>)

\* The zlib calls of one operator() call: gzread always, gzeof when read == 0,
\* gzerror when that finds no EOF.
Calls(r, l, len) ==
    <<<<"gzread", len>>>>
    \o (IF r = 0 THEN <<<<"gzeof", 0>>>> ELSE <<>>)
    \o (IF r = 0 /\ ~gzeof(l) THEN <<<<"gzerror", 0>>>> ELSE <<>>)

\* What a caller reads as buffer()[0..available()): the first n elements of b, and
\* past the end of the array whatever lies there.
View(b, n) ==
    IF n <= Len(b)
    THEN {SubSeq(b, 1, n)}
    ELSE {b \o <<g>> : g \in Bytes}

\* GzipFileReader(path, buffer_size): gz(path), buffer_(buffer_size), read(0), and
\* for char counter_buffer.resize(buffer_size). A failing gzopen throws out of
\* GZFile's constructor; a failing allocation throws after gz is built, and the
\* unwinding destroys gz.
Construct ==
    /\ phase = "unopened"
    /\ \E size \in Capacities, B \in BOOLEAN, allocOK \in BOOLEAN :
         LET gz == GZFile_ctor(lib, file)
         IN /\ isChar' = B
            /\ buffer_size' = size
            /\ IF gz.thrown
               THEN /\ phase' = "open_failed"
                    /\ lib' = gz.lib
                    /\ what' = "failed to open file"
                    /\ UNCHANGED <<buffer_, counter_buffer>>
               ELSE IF ~allocOK
               THEN /\ phase' = "alloc_failed"
                    /\ lib' = Unwind(gz.lib)
                    /\ what' = "bad_alloc"
                    /\ UNCHANGED <<buffer_, counter_buffer>>
               ELSE /\ phase' = "live"
                    /\ lib' = gz.lib
                    /\ buffer_' = Zeros(size)
                    /\ counter_buffer' = IF B THEN Zeros(size) ELSE NoBuffer
                    /\ UNCHANGED what
    /\ read' = 0
    /\ UNCHANGED <<file, ret, rd, faultHit, ops, out, log, overrun, closeRc>>

\* bool operator()(): one gzread of buffer_.size() bytes into buffer_, its result
\* stored in read, the copy into counter_buffer for char, then Outcome. The caller
\* of a call that returned reads buffer()[0..available()).
Advance ==
    /\ phase = "live"
    /\ Len(log) < MaxCalls
    /\ LET len == ToUnsigned(Len(buffer_))
       IN \E res \in gzread(lib, file, len) :
            LET newRead == ToSizeT(res.n)
                newBuffer == Overwrite(buffer_, res.data)
                copies == IF isChar
                          THEN copy_n(newBuffer, newRead, counter_buffer)
                          ELSE {[crash |-> FALSE, overrun |-> FALSE, dst |-> counter_buffer]}
                result == Outcome(newRead, res.lib)
            IN \E c \in copies :
                 /\ read' = newRead
                 /\ buffer_' = newBuffer
                 /\ counter_buffer' = c.dst
                 /\ rd' = res.n
                 /\ faultHit' = res.fault
                 /\ overrun' = (overrun \/ c.overrun)
                 /\ IF c.crash
                    THEN /\ phase' = "crashed"
                         /\ lib' = res.lib
                         /\ ret' = "crash"
                         /\ ops' = <<<<"gzread", len>>>>
                         /\ UNCHANGED <<what, out>>
                    ELSE /\ phase' = "live"
                         /\ lib' = IF newRead = 0 THEN Used(res.lib) ELSE res.lib
                         /\ ret' = result
                         /\ ops' = Calls(newRead, res.lib, len)
                         /\ what' = IF result = "throw" THEN gzerror(res.lib) ELSE what
                         /\ IF result = "throw"
                            THEN out' = out
                            ELSE \E chunk \in View(IF isChar THEN c.dst ELSE newBuffer, newRead) :
                                   out' = out \o chunk
                 /\ log' = Append(log, <<ret', newRead>>)
    /\ UNCHANGED <<file, isChar, buffer_size, closeRc>>

\* ~GzipFileReader(): the members go in reverse order, gz last, and ~GZFile
\* closes the handle whatever gzclose returns.
Destroy ==
    /\ phase = "live"
    /\ \E rc \in CloseCodes :
         /\ closeRc' = rc
         /\ lib' = GZFile_dtor(lib)
         /\ phase' = DtorEnds(rc)
    /\ buffer_' = NoBuffer
    /\ counter_buffer' = NoBuffer
    /\ UNCHANGED <<file, isChar, buffer_size, read, ret, what, rd, faultHit, ops, out, log,
                   overrun>>

Init ==
    /\ file \in Files
    /\ lib = NoHandle
    /\ phase = "unopened"
    /\ isChar = FALSE
    /\ buffer_size = 0
    /\ buffer_ = NoBuffer
    /\ counter_buffer = NoBuffer
    /\ read = 0
    /\ ret = "none"
    /\ what = ""
    /\ rd = 0
    /\ faultHit = FALSE
    /\ ops = <<>>
    /\ out = <<>>
    /\ log = <<>>
    /\ overrun = FALSE
    /\ closeRc = "none"

Next == Construct \/ Advance \/ Destroy

Spec == Init /\ [][Next]_vars

\* ------------------------------------------------------------ properties
\* The stream is a valid one.
ValidStream == file.openable /\ file.valid

\* The stream is truncated or corrupted.
BrokenStream == file.openable /\ ~file.valid

\* operator() has been called on the reader.
Called == log # <<>>

\* A buffer_size that gzread accepts as its len: it fits an int.
FitsInt(size) == size >= 1 /\ size <= IntMax

\* The decompressed content as elements of B.
Content == IF isChar THEN ToChars(file.data) ELSE file.data

\* C1: on a valid stream and with any positive buffer_size, the chunks
\* buffer()[0..available()) of the calls made so far concatenate to a prefix of the
\* content, no call fails, and once a call has returned false they concatenate to
\* exactly the content.
C1_RoundTrip ==
    (ValidStream /\ buffer_size > 0 /\ Called) =>
        /\ ret \in {"true", "false"}
        /\ IsPrefix(out, Content)
        /\ (ret = "false" => out = Content)

\* C1 for the sizes gzread accepts: 1 <= buffer_size <= INT_MAX.
C1_RoundTripFitsInt ==
    (ValidStream /\ FitsInt(buffer_size) /\ Called) =>
        /\ ret \in {"true", "false"}
        /\ IsPrefix(out, Content)
        /\ (ret = "false" => out = Content)

\* C2: after every operator() call, on any stream and whatever gzread returned,
\* available() is at most the buffer capacity.
C2_AvailableWithinCapacity ==
    Called => (available >= 0 /\ available <= buffer_size)

\* C3: on a truncated or corrupted stream no call returns false, and the call whose
\* read hit the fault throws: it is not reported as a chunk.
C3_BrokenStreamThrows ==
    (BrokenStream /\ Called) =>
        /\ ret # "false"
        /\ (faultHit => ret = "throw")

\* C4: a call whose gzread produced zero bytes returns false exactly when the
\* handle's EOF indicator is set, and otherwise throws with gzerror's message.
C4_ZeroBytesDecidedByEof ==
    (Called /\ rd = 0) =>
        /\ (ret = "false") = gzeof(lib)
        /\ (~gzeof(lib) => ret = "throw" /\ what = gzerror(lib))

\* C4's case: a zero-byte read without EOF, thrown with the library's message.
C4_Witness ==
    /\ Called /\ rd = 0 /\ ~gzeof(lib)
    /\ ret = "throw" /\ what = "invalid or incomplete stream"

ExpectedLog(n, c) ==
    LET full == n \div c
        part == n % c
        last == full + (IF part > 0 THEN 1 ELSE 0) + 1
    IN [i \in 1..last |->
          IF i <= full THEN <<"true", c>>
          ELSE IF i < last THEN <<"true", part>>
          ELSE <<"false", 0>>]

\* The first calls of the log are the calls of ExpectedLog, in order.
FollowsExpected(n, c) ==
    \A i \in 1..Len(log) :
        i <= Len(ExpectedLog(n, c)) => log[i] = ExpectedLog(n, c)[i]

\* C6: on a valid stream of n bytes and with capacity c >= 1, the calls are
\* floor(n/c) times (true, c), then (true, n mod c) if n mod c > 0, then (false, 0).
C6_ChunkSequence ==
    (ValidStream /\ buffer_size >= 1) =>
        FollowsExpected(Len(file.data), buffer_size)

\* C6 for the sizes gzread accepts: 1 <= c <= INT_MAX.
C6_ChunkSequenceFitsInt ==
    (ValidStream /\ FitsInt(buffer_size)) =>
        FollowsExpected(Len(file.data), buffer_size)

C8_EmptyStream ==
    (ValidStream /\ file.data = <<>> /\ buffer_size > 0 /\ Called) =>
        log[1] = <<"false", 0>>

\* C8 for the sizes gzread accepts: 1 <= buffer_size <= INT_MAX.
C8_EmptyStreamFitsInt ==
    (ValidStream /\ file.data = <<>> /\ FitsInt(buffer_size) /\ Called) =>
        log[1] = <<"false", 0>>

\* C9: when gzopen cannot open the path the constructor throws: the reader never
\* becomes live, so no operator() call is made and no zlib call touches the
\* missing handle, and gzclose is never called.
C9_OpenFailureAtConstruction ==
    /\ ~file.openable =>
          /\ phase \in {"unopened", "open_failed"}
          /\ lib.handle = "none" /\ lib.closes = 0 /\ ~lib.misuse
          /\ ~Called
    /\ phase = "open_failed" =>
          /\ ~file.openable
          /\ what = "failed to open file"
          /\ buffer_ = NoBuffer

\* C9's case: construction on a path gzopen could not open.
C9_Witness ==
    ~file.openable /\ phase = "open_failed" /\ lib.opens = 0 /\ lib.closes = 0

\* C10: an opened handle is closed at most once, no zlib call is made on a handle
\* that is not open, a live reader's handle is open, and once the reader is
\* destroyed (after false, after a partial read, with no call at all, after a
\* thrown error) the handle has been closed exactly once.
C10_ReleasedExactlyOnce ==
    /\ lib.closes <= lib.opens /\ lib.closes <= 1
    /\ ~lib.misuse
    /\ phase = "live" => (lib.handle = "open" /\ lib.closes = 0)
    /\ phase = "destroyed" => (lib.handle = "closed" /\ lib.closes = 1)

\* C10's case: the reader destroyed after operator() threw.
C10_Witness ==
    phase = "destroyed" /\ ret = "throw" /\ lib.opens = 1 /\ lib.closes = 1

\* available() after the latest call that did not throw (0 before any).
LastOkAvailable ==
    LET ok == {i \in 1..Len(log) : log[i][1] # "throw"}
    IN IF ok = {} THEN 0
       ELSE log[CHOOSE i \in ok : \A j \in ok : j <= i][2]

\* C11 as stated: a call that throws leaves available() as it was after the last
\* call that did not throw, and leaves the contents of buffer() as they were.
C11_FailureKeepsAvailable ==
    [][(log' # log /\ ret' = "throw") =>
          (available' = LastOkAvailable /\ buffer' = buffer)]_vars

\* C11 amended: a call that throws has set available() to 0, the count of the
\* failing read, whatever it was before; the buffers keep their contents (gzread
\* stored no byte for a read of 0 bytes, and copy_n copied 0 elements).
C11_FailureResetsAvailable ==
    [][(log' # log /\ ret' = "throw") =>
          /\ available' = 0
          /\ buffer_' = buffer_
          /\ counter_buffer' = counter_buffer]_vars

\* C11's case: a call delivered bytes and the next one threw, leaving 0.
C11_Witness ==
    /\ ret = "throw" /\ available = 0
    /\ Len(log) >= 2
    /\ log[Len(log) - 1][1] = "true" /\ log[Len(log) - 1][2] > 0
    /\ \E i \in 1..Len(buffer_) : buffer_[i] # 0

\* What C12 says of a char reader after a call: the call ended, it wrote inside
\* the arrays only, and the first available() elements of buffer() are the bytes
\* gzread stored, converted, in order.
CharCopyExact ==
    /\ ret # "crash" /\ ~overrun
    /\ available <= Len(counter_buffer)
    /\ SubSeq(buffer, 1, available) = ToChars(SubSeq(buffer_, 1, available))

\* C12: with B = char, after every operator() call exactly available() elements
\* have been copied into counter_buffer and buffer()[0..available()) holds the
\* bytes gzread produced, in order, as an unsigned char reader would show them.
C12_CharCopy ==
    (isChar /\ Called /\ phase # "destroyed") => CharCopyExact

\* C12 for the calls whose gzread did not return its error value.
C12_CharCopyNoErrorReturn ==
    (isChar /\ Called /\ phase # "destroyed" /\ rd >= 0) => CharCopyExact

\* The frame C13 gives an operator() call: the reader is still there, both buffers
\* keep the capacity given at construction, no memory outside them is written, and
\* the handle is the same open handle.
AdvanceFrame ==
    /\ phase' = "live"
    /\ buffer_size' = buffer_size /\ isChar' = isChar
    /\ Len(buffer_') = buffer_size
    /\ (isChar => Len(counter_buffer') = buffer_size)
    /\ ~overrun'
    /\ file' = file /\ closeRc' = closeRc
    /\ lib'.handle = lib.handle /\ lib'.opens = lib.opens /\ lib'.closes = lib.closes

\* C13: an operator() call changes only the contents of buffer_ and
\* counter_buffer and read (and the handle's stream state); the capacities stay
\* those given at construction. buffer() and available() are state functions:
\* reading them is no step.
C13_AdvanceFrame ==
    [][(log' # log) => AdvanceFrame]_vars

\* C13 for the calls whose gzread did not return its error value.
C13_AdvanceFrameNoErrorReturn ==
    [][(log' # log /\ rd' >= 0) => AdvanceFrame]_vars

\* C14: destruction never fails: whatever gzclose returns, the destructor
\* returns, the handle is closed, and a live reader can always be destroyed
\* (before any call, after false, after a thrown error).
C14_DestructionNeverFails ==
    /\ phase # "terminated"
    /\ closeRc # "none" =>
          (phase = "destroyed" /\ lib.handle = "closed" /\ lib.closes = 1)
    /\ phase = "live" => ENABLED Destroy

\* C14's case: an exhausted reader destroyed while gzclose reported an error.
C14_Witness ==
    phase = "destroyed" /\ closeRc = "Z_ERRNO" /\ ret = "false" /\ lib.closes = 1

\* C15: in an operator() call gzread comes first, and gzeof and gzerror are
\* called only after a read of zero bytes; a call that read bytes makes no other
\* zlib call, whatever the EOF indicator.
C15_EofOnlyAfterEmptyRead ==
    Called =>
        /\ ops[1][1] = "gzread"
        /\ \A i \in 2..Len(ops) : ops[i][1] \in {"gzeof", "gzerror"} /\ rd = 0
        /\ (rd # 0 => Len(ops) = 1)

\* C15's case: a call read bytes, the handle is at EOF, and gzread was its only
\* zlib call.
C15_Witness ==
    /\ Called /\ rd > 0 /\ gzeof(lib) /\ ret = "true"
    /\ ops = <<<<"gzread", buffer_size>>>>

\* C16: when an allocation fails after gzopen succeeded, the handle has been
\* closed exactly once, no zlib call was made on it otherwise, and no reader
\* exists (no buffers, no call).
C16_AllocFailureReleases ==
    phase = "alloc_failed" =>
        /\ lib.opens = 1 /\ lib.closes = 1 /\ lib.handle = "closed"
        /\ ~lib.misuse /\ ~Called
        /\ buffer_ = NoBuffer /\ counter_buffer = NoBuffer

\* C16's case: construction failed in an allocation, after the open.
C16_Witness ==
    phase = "alloc_failed" /\ file.openable /\ what = "bad_alloc" /\ lib.closes = 1

\* One gzread per call, asking for `size` bytes.
OneReadOf(size) ==
    /\ ops[1] = <<"gzread", size>>
    /\ \A i \in 2..Len(ops) : ops[i][1] # "gzread"

\* C17: every operator() call makes exactly one gzread, for exactly
\* buffer_capacity bytes, and a read that hit the stream's fault is thrown by that
\* same call.
C17_OneReadOfCapacity ==
    Called =>
        /\ OneReadOf(buffer_size)
        /\ (faultHit => ret = "throw")

\* C17 for the sizes that fit gzread's unsigned len (buffer_size <= UINT_MAX) and
\* the calls whose gzread did not return its error value.
C17_OneReadFitsUnsigned ==
    (Called /\ buffer_size < UIntMod /\ rd >= 0) =>
        /\ OneReadOf(buffer_size)
        /\ (faultHit => ret = "throw")

\* C18: on a valid stream, a call made after a call that returned false returns
\* false too, with available() = 0 as before, and leaves the buffers and what the
\* caller has read as they were.
C18_ExhaustionStable ==
    [][(ValidStream /\ ret = "false" /\ log' # log) =>
          /\ ret' = "false"
          /\ available' = 0 /\ available' = available
          /\ buffer_' = buffer_ /\ counter_buffer' = counter_buffer
          /\ out' = out]_vars

\* C18's case: on a non-empty valid stream, a second call returned false.
C18_Witness ==
    /\ ValidStream /\ file.data # <<>>
    /\ Len(log) >= 2
    /\ log[Len(log) - 1] = <<"false", 0>>
    /\ ret = "false" /\ available = 0

\* C19: a reader built with buffer_size = 0 is built like any other (only a
\* failing gzopen or allocation stops construction), none of its calls returns
\* true, and on a non-empty valid stream its first call throws.
C19_ZeroCapacity ==
    (buffer_size = 0 /\ phase # "unopened") =>
        /\ (phase = "open_failed" => ~file.openable)
        /\ \A i \in 1..Len(log) : log[i][1] # "true"
        /\ (ValidStream /\ file.data # <<>> /\ Called) => log[1] = <<"throw", 0>>

\* C19's case: a zero-capacity reader on a non-empty valid stream threw at its
\* first call, with gzeof clear and no error set in the handle.
C19_Witness ==
    /\ buffer_size = 0 /\ ValidStream /\ file.data # <<>>
    /\ Len(log) = 1 /\ ret = "throw" /\ what = "" /\ ~gzeof(lib)

====
